---------------------------- MODULE Spec2Model ----------------------------
(***************************************************************************)
(* A model of src/data/enc_dec_dataset.py of CPM-2: the split partitioner, *)
(* the index builder (doc_idx, sample_idx, shuffle_idx), the sample        *)
(* materializer EncDecDataset.__getitem__, the build/barrier/load protocol *)
(* of _build_index_mappings, build_train_valid_test_datasets with the loop *)
(* of _num_epochs turn by turn, and repeated calls of                      *)
(* _build_index_mappings over the same index files.                        *)
(*                                                                         *)
(* Python arrays are modelled as sequences; position i of an array (from   *)
(* 0) is element i + 1 of the sequence, read with At.                      *)
(***************************************************************************)
EXTENDS Integers, Sequences, FiniteSets

VARIABLES
    \* get_train_valid_test_split_
    splits_string,      \* the values written in the ratio string, in order
    size,               \* total number of documents
    splits_index,       \* the boundaries returned
    split_pc,           \* "call" | "done" | "fatal"
    \* _build_index_mappings / EncDecDataset.__init__
    sizes,              \* context_indexed_dataset.sizes
    documents,          \* document ids of the split
    seq_length,         \* enc_seq_length - 1
    num_samples,        \* number of samples requested
    num_epochs,
    doc_idx,
    sample_idx,
    shuffle_idx,
    built,              \* the three index arrays are built
    \* document stores and EncDecDataset.__getitem__
    context,            \* context store: per document its token ids
    target,             \* target store: per document its token ids
    target_offset,      \* target-offset store: per document (offset, length)*
    enc_seq_length,
    dec_seq_length,
    example,            \* what the last __getitem__ call produced
    \* the process group running _build_index_mappings
    group,              \* global ranks of the data-parallel group
    pc,                 \* each rank's position in _build_index_mappings
    files,              \* the three index files on disk: whether each exists,
                        \* the ranks writing it, the ranks that have saved it
    counts,             \* ranks that have entered the all_reduce
    loaded,             \* what each rank's np.load found, per file
    \* build_train_valid_test_datasets
    train_valid_test_num_samples,
    index,              \* the split build_dataset is called for: 0, 1, 2
    build_pc,           \* position in build_dataset / EncDecDataset.__init__
    total_tokens,       \* total_tokens of the loop of _num_epochs
    datasets,           \* the datasets returned so far, None or built
    \* calls of _build_index_mappings by one process, one after the other
    disk,               \* the three index files of the key, with their arrays
    calls               \* number of calls that have returned

vars == <<splits_string, size, splits_index, split_pc,
          sizes, documents, seq_length, num_samples, num_epochs,
          doc_idx, sample_idx, shuffle_idx, built,
          context, target, target_offset, enc_seq_length, dec_seq_length, example,
          group, pc, files, counts, loaded,
          train_valid_test_num_samples, index, build_pc, total_tokens, datasets,
          disk, calls>>

splitVars == <<splits_string, size, splits_index, split_pc>>
indexVars == <<sizes, documents, seq_length, num_samples, num_epochs,
               doc_idx, sample_idx, shuffle_idx, built>>
dataVars  == <<context, target, target_offset, enc_seq_length, dec_seq_length,
               example>>
syncVars  == <<group, pc, files, counts, loaded>>
buildVars == <<train_valid_test_num_samples, index, build_pc, total_tokens,
               datasets>>
cacheVars == <<disk, calls>>

----------------------------------------------------------------------------
(* Bounds of the model *)

MaxRatio   == 2    \* largest value written in a ratio string
MaxSplitN  == 4    \* largest document count given to the split partitioner
MaxDocs    == 2    \* largest number of documents in the corpus
MaxDocSize == 3    \* largest document size (tokens)
MaxSeqLen  == 2    \* largest seq_length in the index model
MaxSamples == 2    \* largest number of samples requested
MaxWindows == 3    \* largest number of samples built
MaxDocIdx  == 4    \* largest length of doc_idx built
MaxCtxTokens == 2  \* largest number of tokens in the context store
MaxDecLen  == 3    \* largest dec_seq_length
MaxRank    == 8    \* largest global rank in a group
MaxGroup   == 3    \* largest number of ranks in a group

----------------------------------------------------------------------------
(* Helpers for Python arrays *)

At(a, i) == a[i + 1]

Range(a) == {a[i] : i \in 1..Len(a)}

RECURSIVE SumSeq(_)
SumSeq(a) == IF a = <<>> THEN 0 ELSE a[1] + SumSeq(Tail(a))

Count(a, v) == Cardinality({i \in 1..Len(a) : a[i] = v})

SeqsUpTo(S, n) == UNION {[1..k -> S] : k \in 0..n}

\* all orders an in-place shuffle (np_rng.shuffle) can leave array a in
Shuffles(a) ==
    {p \in [1..Len(a) -> Range(a)] : \A v \in Range(a) : Count(p, v) = Count(a, v)}

\* Python 3 round() of the exact quotient p / q, q > 0: half to even
round(p, q) ==
    LET f == p \div q
        r == 2 * (p % q)
    IN  IF r < q THEN f
        ELSE IF r > q THEN f + 1
        ELSE IF f % 2 = 0 THEN f ELSE f + 1

----------------------------------------------------------------------------
(* get_train_valid_test_split_ *)

\* splits padded with 0. up to three values and cut to the first three
PadSplits(s) ==
    LET padded == s \o <<0, 0, 0>>
    IN  SubSeq(padded, 1, 3)

\* splits_index after the cumulative loop and the drift correction
get_train_valid_test_split_(s, n) ==
    LET splits     == PadSplits(s)
        splits_sum == SumSeq(splits)
        r(i)       == round(splits[i] * n, splits_sum)
        raw        == <<0, r(1), r(1) + r(2), r(1) + r(2) + r(3)>>
        diff       == raw[4] - n
    IN  <<raw[1], raw[2] - diff, raw[3] - diff, raw[4] - diff>>

\* the ratio sums whose float quotients and products are exact
ExactSum(t) == t \in {0, 1, 2, 4, 8, 16}

SplitInit ==
    /\ splits_string \in {s \in SeqsUpTo(0..MaxRatio, 4) :
                            Len(s) >= 1 /\ ExactSum(SumSeq(PadSplits(s)))}
    /\ size \in 0..MaxSplitN
    /\ splits_index = <<>>
    /\ split_pc = "call"

\* assert splits_sum > 0.0 fails
SplitFatal ==
    /\ split_pc = "call"
    /\ SumSeq(PadSplits(splits_string)) <= 0
    /\ split_pc' = "fatal"
    /\ UNCHANGED <<splits_string, size, splits_index>>
    /\ UNCHANGED <<indexVars, dataVars, syncVars, buildVars, cacheVars>>

SplitReturn ==
    /\ split_pc = "call"
    /\ SumSeq(PadSplits(splits_string)) > 0
    /\ splits_index' = get_train_valid_test_split_(splits_string, size)
    /\ split_pc' = "done"
    /\ UNCHANGED <<splits_string, size>>
    /\ UNCHANGED <<indexVars, dataVars, syncVars, buildVars, cacheVars>>

SplitIdle ==
    /\ splits_string = <<1>>
    /\ size = 0
    /\ splits_index = <<>>
    /\ split_pc = "call"

----------------------------------------------------------------------------
(* The index builder *)

_num_tokens(docs, sz) == SumSeq([i \in 1..Len(docs) |-> At(sz, docs[i])])

\* the loop with > in place of >=
RECURSIVE num_epochs_loop_strict(_, _, _, _, _)
num_epochs_loop_strict(e, t, tokens_per_epoch, sl, ns) ==
    LET e1 == e + 1
        t1 == t + tokens_per_epoch
    IN  IF ((t1 - 1) \div sl) > ns THEN e1
        ELSE num_epochs_loop_strict(e1, t1, tokens_per_epoch, sl, ns)

\* the loop of _num_epochs, entered with num_epochs = e and total_tokens = t
RECURSIVE num_epochs_loop(_, _, _, _, _)
num_epochs_loop(e, t, tokens_per_epoch, sl, ns) ==
    LET e1 == e + 1
        t1 == t + tokens_per_epoch
    IN  IF ((t1 - 1) \div sl) >= ns THEN e1
        ELSE num_epochs_loop(e1, t1, tokens_per_epoch, sl, ns)

_num_epochs(tokens_per_epoch, sl, ns) ==
    num_epochs_loop(0, 0, tokens_per_epoch, sl, ns)

\* documents replicated once too often
ReplicateOnceMore(docs, ne) ==
    [i \in 1..((ne + 1) * Len(docs)) |-> docs[((i - 1) % Len(docs)) + 1]]

\* doc_idx before the shuffle: documents, num_epochs times over
Replicate(docs, ne) ==
    [i \in 1..(ne * Len(docs)) |-> docs[((i - 1) % Len(docs)) + 1]]

\* the arrays np_rng.shuffle can leave doc_idx in
_build_doc_idx(docs, ne) == Shuffles(Replicate(docs, ne))

\* a fresh sequence of seq_length tokens only
FreshSeqLengthShort(sl) == sl

\* the length of a fresh sequence before any document is added to it
FreshSeqLength(sl) == sl + 1

\* the inner loop of _build_sample_idx: the boundary reached from
\* (doc_idx_index, doc_offset) with remaining_seq_length still to add
RECURSIVE sample_walk(_, _, _, _, _)
sample_walk(sz, didx, remaining_seq_length, doc_idx_index, doc_offset) ==
    LET doc_id     == At(didx, doc_idx_index)
        doc_length == At(sz, doc_id) - doc_offset
        rem        == remaining_seq_length - doc_length
    IN  IF rem <= 0
        THEN <<doc_idx_index, doc_offset + (rem + doc_length - 1)>>
        ELSE sample_walk(sz, didx, rem, doc_idx_index + 1, 0)

\* the outer loop of _build_sample_idx
RECURSIVE sample_loop(_, _, _, _, _)
sample_loop(sz, didx, sl, n, sidx) ==
    IF Len(sidx) > n THEN sidx
    ELSE LET last == sidx[Len(sidx)]
             next == sample_walk(sz, didx, FreshSeqLength(sl), last[1], last[2])
         IN  sample_loop(sz, didx, sl, n, Append(sidx, next))

_build_sample_idx(sz, didx, sl, ne, tokens_per_epoch) ==
    LET n == (ne * tokens_per_epoch - 1) \div sl
    IN  sample_loop(sz, didx, sl, n, << <<0, 0>> >>)

\* n indices drawn with replacement
shuffle_idx_resampled(n) == [1..n -> 0..(n - 1)]

\* the arrays np_rng.shuffle can leave arange(0, n) in
_build_shuffle_idx(n) == Shuffles([i \in 1..n |-> i - 1])

\* the coordinator's build in _build_index_mappings, called with seq_length sl
_build_index_mappings(sl) ==
    LET tokens_per_epoch == _num_tokens(documents, sizes)
        ne == _num_epochs(tokens_per_epoch, sl, num_samples)
    IN  /\ ~built
        /\ seq_length' = sl
        /\ num_epochs' = ne
        /\ \E d \in _build_doc_idx(documents, ne) :
             LET s == _build_sample_idx(sizes, d, sl, ne, tokens_per_epoch)
             IN  /\ doc_idx' = d
                 /\ sample_idx' = s
                 /\ \E sh \in _build_shuffle_idx(Len(s) - 1) : shuffle_idx' = sh
        /\ built' = TRUE
        /\ UNCHANGED <<sizes, documents, num_samples>>

\* the splits of a corpus of n documents: the ranges [lo, hi) with lo < hi
Ranges(n) == {[i \in 1..(hi - lo) |-> lo + i - 1] : lo \in 0..n, hi \in 0..n} \ {<<>>}

\* the index arrays of these inputs stay within the bounds of the model
InBounds(docs, sz, sl, ns) ==
    LET tokens_per_epoch == _num_tokens(docs, sz)
        ne == _num_epochs(tokens_per_epoch, sl, ns)
    IN  /\ ne * Len(docs) <= MaxDocIdx
        /\ (ne * tokens_per_epoch - 1) \div sl <= MaxWindows

IndexUnbuilt ==
    /\ num_epochs = 0
    /\ doc_idx = <<>>
    /\ sample_idx = <<>>
    /\ shuffle_idx = <<>>
    /\ built = FALSE

IndexInit ==
    /\ sizes \in {s \in SeqsUpTo(0..MaxDocSize, MaxDocs) : Len(s) >= 1}
    /\ documents \in Ranges(Len(sizes))
    /\ _num_tokens(documents, sizes) >= 1
    /\ seq_length \in 1..MaxSeqLen
    /\ num_samples \in 0..MaxSamples
    /\ InBounds(documents, sizes, seq_length, num_samples)
    /\ IndexUnbuilt

IndexIdle ==
    /\ sizes = <<1>>
    /\ documents = <<0>>
    /\ seq_length = 1
    /\ num_samples = 0
    /\ IndexUnbuilt

----------------------------------------------------------------------------
(* The tokenizer and the document stores *)

vocab_size    == 100
eod_id        == 2
pad_id        == 0
FirstSentinel == 50

sentinel_id(k) == FirstSentinel + k

\* MMapIndexedDataset.get(d, offset, length)
get(store, d, offset, length) == SubSeq(At(store, d), offset + 1, offset + length)

\* MMapIndexedDataset.get(d, offset): to the end of the document
get_rest(store, d, offset) == SubSeq(At(store, d), offset + 1, Len(At(store, d)))

----------------------------------------------------------------------------
(* EncDecDataset *)

\* enc_seq_length handed on as it is
BuilderSeqLengthSame(enc) == enc

\* the seq_length __init__ hands to _build_index_mappings
BuilderSeqLength(enc) == enc - 1

EncDecDataset_init ==
    /\ _build_index_mappings(BuilderSeqLength(enc_seq_length))
    /\ UNCHANGED <<dataVars, splitVars, syncVars, buildVars, cacheVars>>

__len__ == Len(sample_idx) - 1

\* no check of the context id
context_token_unchecked(token_id) == TRUE

\* assert token_id != self.tokenizer.eod_id
context_token_ok(token_id) == token_id # eod_id

\* assert target[0] == token_id
target_head_ok(tg, token_id) == tg[1] = token_id

\* the state of the substitution loops before the first token
NoSubstitution ==
    [contexts |-> <<>>, ctx_eod_mask |-> <<>>, targets_list |-> <<>>,
     sentinel_count |-> 0, err |-> "none"]

\* the loop over the tokens of one document slice, from token i on; d is the
\* document the slice comes from, st the contexts, mask, spans and sentinel
\* count so far
RECURSIVE substitute(_, _, _, _)
substitute(d, tmp_contexts, i, st) ==
    IF st.err # "none" \/ i > Len(tmp_contexts) THEN st
    ELSE
      LET token_id == tmp_contexts[i]
      IN  IF ~context_token_ok(token_id) THEN [st EXCEPT !.err = "eod in context"]
          ELSE IF token_id >= vocab_size
          THEN LET x    == token_id - vocab_size
                   toff == At(target_offset, d)
               IN  IF 2 * x + 2 > Len(toff) THEN [st EXCEPT !.err = "index"]
                   ELSE
                     LET sid == sentinel_id(st.sentinel_count)
                         tg  == get(target, d, At(toff, 2 * x), At(toff, 2 * x + 1))
                     IN  IF tg = <<>> THEN [st EXCEPT !.err = "index"]
                         ELSE IF ~target_head_ok(tg, token_id)
                         THEN [st EXCEPT !.err = "target head"]
                         ELSE substitute(d, tmp_contexts, i + 1,
                                [contexts       |-> Append(st.contexts, sid),
                                 ctx_eod_mask   |-> Append(st.ctx_eod_mask,
                                       IF eod_id \in Range(tg) THEN 1 ELSE 0),
                                 targets_list   |-> Append(st.targets_list,
                                                           [tg EXCEPT ![1] = sid]),
                                 sentinel_count |-> st.sentinel_count + 1,
                                 err            |-> "none"])
          ELSE substitute(d, tmp_contexts, i + 1,
                 [st EXCEPT !.contexts = Append(@, token_id),
                            !.ctx_eod_mask = Append(@, 0)])

\* the length of the slice of the single-document case
single_length(offset_f, offset_l) == offset_l - offset_f + 1

\* the length of the slice of the last document of the multi-document case
last_length(offset_l) == offset_l + 1

\* the first document of the window, whatever the slice
slice_document_first(doc_index_f, k) == At(doc_idx, doc_index_f)

\* the document whose target store slice k of the window is looked up in
slice_document(doc_index_f, k) == At(doc_idx, doc_index_f + k)

\* contexts_list of the multi-document case
contexts_list(doc_index_f, offset_f, doc_index_l, offset_l) ==
    <<get_rest(context, At(doc_idx, doc_index_f), offset_f)>>
    \o [i \in 1..(doc_index_l - doc_index_f - 1) |->
            get_rest(context, At(doc_idx, doc_index_f + i), 0)]
    \o <<get(context, At(doc_idx, doc_index_l), 0, last_length(offset_l))>>

\* the loop over the slices of the multi-document case, from slice k on
RECURSIVE substitute_slices(_, _, _, _)
substitute_slices(cl, doc_index_f, k, st) ==
    IF k >= Len(cl) THEN st
    ELSE substitute_slices(cl, doc_index_f, k + 1,
            substitute(slice_document(doc_index_f, k), At(cl, k), 1, st))

RECURSIVE Flatten(_)
Flatten(ss) == IF ss = <<>> THEN <<>> ELSE ss[1] \o Flatten(Tail(ss))

Pad(a, n) == a \o [i \in 1..(n - Len(a)) |-> pad_id]

\* the cut to dec_seq_length tokens
cut_targets_short(targets) ==
    IF Len(targets) > dec_seq_length + 1
    THEN SubSeq(targets, 1, dec_seq_length)
    ELSE targets

\* the cut of an over-long decoder sequence
cut_targets(targets) ==
    IF Len(targets) > dec_seq_length + 1
    THEN SubSeq(targets, 1, dec_seq_length + 1)
    ELSE targets

Fatal(i, idx, case, why) ==
    [status |-> "fatal", reason |-> why, logical |-> i, idx |-> idx, case |-> case,
     contexts |-> <<>>, targets |-> <<>>, labels |-> <<>>, ctx_eod_mask |-> <<>>,
     targets_list |-> <<>>, cut |-> FALSE]

\* what __getitem__(i) produces: the example, or the failed assertion
getitem(i) ==
    LET idx         == At(shuffle_idx, i)
        doc_index_f == At(sample_idx, idx)[1]
        doc_index_l == At(sample_idx, idx + 1)[1]
        offset_f    == At(sample_idx, idx)[2]
        offset_l    == At(sample_idx, idx + 1)[2]
        case        == IF doc_index_f = doc_index_l THEN "single" ELSE "multi"
        st == IF doc_index_f = doc_index_l
              THEN substitute(At(doc_idx, doc_index_f),
                              get(context, At(doc_idx, doc_index_f), offset_f,
                                  single_length(offset_f, offset_l)),
                              1, NoSubstitution)
              ELSE substitute_slices(
                       contexts_list(doc_index_f, offset_f, doc_index_l, offset_l),
                       doc_index_f, 0, NoSubstitution)
        targets0 == <<1>> \o Flatten(st.targets_list)
                          \o <<sentinel_id(st.sentinel_count)>>
        targets1 == cut_targets(targets0)
        labels   == Tail(targets1)
        targets  == SubSeq(targets1, 1, Len(targets1) - 1)
    IN  IF st.err # "none" THEN Fatal(i, idx, case, st.err)
        ELSE IF Len(st.contexts) # enc_seq_length
        THEN Fatal(i, idx, case, "contexts length")
        ELSE IF Len(targets) > dec_seq_length
        THEN Fatal(i, idx, case, "target length")
        ELSE [status |-> "ok", reason |-> "", logical |-> i, idx |-> idx,
              case |-> case,
              contexts |-> st.contexts,
              targets |-> Pad(targets, dec_seq_length),
              labels |-> Pad(labels, dec_seq_length),
              ctx_eod_mask |-> st.ctx_eod_mask,
              targets_list |-> st.targets_list,
              cut |-> Len(targets0) > dec_seq_length + 1]

EncDecDataset_getitem ==
    /\ built
    /\ \E i \in 0..(__len__ - 1) : example' = getitem(i)
    /\ UNCHANGED <<context, target, target_offset, enc_seq_length, dec_seq_length>>
    /\ UNCHANGED <<indexVars, splitVars, syncVars, buildVars, cacheVars>>

\* the target store of document d: the span of slot 0, then the span of slot 1
TargetDoc(d) == <<vocab_size, 10 + d, vocab_size + 1, eod_id, 10 + d>>

\* target-offset entries of the documents: both right, or slot 1 off by a token
TargetOffsets == {<<0, 2, 2, 3>>, <<0, 2, 3, 2>>}

CtxTokens == {3, eod_id, vocab_size, vocab_size + 1}

NoExample ==
    [status |-> "none", reason |-> "", logical |-> 0, idx |-> 0, case |-> "",
     contexts |-> <<>>, targets |-> <<>>, labels |-> <<>>, ctx_eod_mask |-> <<>>,
     targets_list |-> <<>>, cut |-> FALSE]

\* the documents of sizes sz whose tokens, one after the other, are t
Chunks(t, sz) ==
    [d \in 1..Len(sz) |->
        SubSeq(t, SumSeq(SubSeq(sz, 1, d - 1)) + 1, SumSeq(SubSeq(sz, 1, d)))]

DataInit ==
    /\ sizes \in {s \in SeqsUpTo(1..MaxDocSize, MaxDocs) :
                    Len(s) >= 1 /\ SumSeq(s) <= MaxCtxTokens}
    /\ context \in {Chunks(t, sizes) : t \in [1..SumSeq(sizes) -> CtxTokens]}
    /\ target = [d \in 1..Len(context) |-> TargetDoc(d - 1)]
    /\ target_offset \in {[d \in 1..Len(context) |-> o] : o \in TargetOffsets}
    /\ documents \in Ranges(Len(sizes))
    /\ enc_seq_length \in 2..(MaxSeqLen + 1)
    /\ dec_seq_length \in (MaxDecLen - 1)..MaxDecLen
    /\ num_samples \in 0..MaxSamples
    /\ InBounds(documents, sizes, BuilderSeqLength(enc_seq_length), num_samples)
    /\ seq_length = 0
    /\ IndexUnbuilt
    /\ example = NoExample

DataIdle ==
    /\ context = <<>>
    /\ target = <<>>
    /\ target_offset = <<>>
    /\ enc_seq_length = 0
    /\ dec_seq_length = 0
    /\ example = NoExample

----------------------------------------------------------------------------
(* _build_index_mappings run by the ranks of a data-parallel group *)

\* ranks per node: rank % 8 == 0 builds
NodeSize == 8

\* 1: doc_idx_filename, 2: sample_idx_filename, 3: shuffle_idx_filename
FileIds == 1..3

is_build_coordinator(r) == r % NodeSize = 0

\* os.path.isfile
isfile(k) == files[k].exists

\* the file is there and nobody is writing it
Complete(k) == files[k].exists /\ files[k].writers = {}

\* what np.load finds
Found(k) == IF ~files[k].exists THEN "missing"
            ELSE IF files[k].writers # {} THEN "partial"
            ELSE "ok"

\* the all_reduce returning at once
all_reduced_early == TRUE

\* all ranks of the group have entered the all_reduce
all_reduced == counts = group

\* if torch.distributed.get_rank() % 8 == 0
Enter(r) ==
    /\ pc[r] = <<"start", 0>>
    /\ pc' = [pc EXCEPT ![r] = IF is_build_coordinator(r) THEN <<"isfile", 1>>
                               ELSE <<"all_reduce", 0>>]
    /\ UNCHANGED <<group, files, counts, loaded, splitVars, indexVars, dataVars, buildVars, cacheVars>>

\* one operand of the test of the three files: a missing file starts the build
IsFileMissing(r) ==
    \E k \in FileIds :
       /\ pc[r] = <<"isfile", k>>
       /\ ~isfile(k)
       /\ pc' = [pc EXCEPT ![r] = <<"save", 1>>]
       /\ UNCHANGED <<group, files, counts, loaded, splitVars, indexVars, dataVars, buildVars, cacheVars>>

IsFilePresent(r) ==
    \E k \in FileIds :
       /\ pc[r] = <<"isfile", k>>
       /\ isfile(k)
       /\ pc' = [pc EXCEPT ![r] = IF k < 3 THEN <<"isfile", k + 1>>
                                  ELSE <<"all_reduce", 0>>]
       /\ UNCHANGED <<group, files, counts, loaded, splitVars, indexVars, dataVars, buildVars, cacheVars>>

\* np.save opens the file for writing: it exists, emptied, from here on
SaveOpen(r) ==
    \E k \in FileIds :
       /\ pc[r] = <<"save", k>>
       /\ files' = [files EXCEPT ![k].exists = TRUE, ![k].writers = @ \cup {r}]
       /\ pc' = [pc EXCEPT ![r] = <<"write", k>>]
       /\ UNCHANGED <<group, counts, loaded, splitVars, indexVars, dataVars, buildVars, cacheVars>>

\* np.save has written the array and closed the file
SaveClose(r) ==
    \E k \in FileIds :
       /\ pc[r] = <<"write", k>>
       /\ files' = [files EXCEPT ![k].writers = @ \ {r}, ![k].saved = @ \cup {r}]
       /\ pc' = [pc EXCEPT ![r] = IF k < 3 THEN <<"save", k + 1>>
                                  ELSE <<"all_reduce", 0>>]
       /\ UNCHANGED <<group, counts, loaded, splitVars, indexVars, dataVars, buildVars, cacheVars>>

\* torch.distributed.all_reduce(counts, group=data parallel group): entered
AllReduceEnter(r) ==
    /\ pc[r] = <<"all_reduce", 0>>
    /\ counts' = counts \cup {r}
    /\ pc' = [pc EXCEPT ![r] = <<"wait", 0>>]
    /\ UNCHANGED <<group, files, loaded, splitVars, indexVars, dataVars, buildVars, cacheVars>>

\* the all_reduce returns, and the assert on counts passes
AllReduceReturn(r) ==
    /\ pc[r] = <<"wait", 0>>
    /\ all_reduced
    /\ pc' = [pc EXCEPT ![r] = <<"load", 1>>]
    /\ UNCHANGED <<group, files, counts, loaded, splitVars, indexVars, dataVars, buildVars, cacheVars>>

\* np.load of the next file
Load(r) ==
    \E k \in FileIds :
       /\ pc[r] = <<"load", k>>
       /\ loaded' = [loaded EXCEPT ![r][k] = Found(k)]
       /\ pc' = [pc EXCEPT ![r] = IF Found(k) # "ok" THEN <<"failed", k>>
                                  ELSE IF k < 3 THEN <<"load", k + 1>>
                                  ELSE <<"done", 0>>]
       /\ UNCHANGED <<group, files, counts, splitVars, indexVars, dataVars, buildVars, cacheVars>>

\* the groups of the model: ranks of one data-parallel group, the rank that
\* builds for its node among them
Groups ==
    {g \in SUBSET (0..MaxRank) :
        /\ Cardinality(g) \in 1..MaxGroup
        /\ \E r \in g : is_build_coordinator(r)}

SyncInit ==
    /\ group \in Groups
    /\ pc = [r \in group |-> <<"start", 0>>]
    /\ \E present \in SUBSET FileIds :
         files = [k \in FileIds |->
                    [exists |-> k \in present, writers |-> {}, saved |-> {}]]
    /\ counts = {}
    /\ loaded = [r \in group |-> [k \in FileIds |-> "none"]]

SyncIdle ==
    /\ group = {}
    /\ pc = <<>>
    /\ files = <<>>
    /\ counts = {}
    /\ loaded = <<>>

----------------------------------------------------------------------------
(* build_train_valid_test_datasets *)

\* dataset = None: the split was not built
None == [built |-> FALSE, documents |-> <<>>, num_epochs |-> 0]

\* np.arange(start, stop, step=1)
arange(start, stop) == [i \in 1..(stop - start) |-> start + i - 1]

\* if splits[index + 1] > splits[index]
split_nonempty(splits, i) == At(splits, i + 1) > At(splits, i)

\* assert np.min(documents) >= 0
\* assert np.max(documents) < context_indexed_dataset.sizes.shape[0]
documents_ok(docs, n) == \A i \in 1..Len(docs) : docs[i] >= 0 /\ docs[i] < n

\* the test that ends the loop of _num_epochs
enough_tokens(t, sl, ns) == (t - 1) \div sl >= ns

\* the sizes a document of the corpus has here: empty, or one token
BuildDocSizes == {0, 1}

\* no loop of _num_epochs that returns takes more turns than this for a
\* split of at least one token; the turns of the loop are counted up to here
EpochCap == MaxSamples * MaxSeqLen + 1

BuildInit ==
    /\ splits_string \in {s \in [1..3 -> 0..MaxRatio] : ExactSum(SumSeq(s))}
    /\ size \in 0..(MaxDocs + 1)
    /\ splits_index = <<>>
    /\ split_pc = "call"
    /\ sizes \in [1..size -> BuildDocSizes]
    /\ train_valid_test_num_samples \in [1..3 -> {0, MaxSamples}]
    /\ enc_seq_length \in 2..(MaxSeqLen + 1)
    /\ documents = <<>>
    /\ seq_length = 0
    /\ num_samples = 0
    /\ IndexUnbuilt
    /\ context = <<>>
    /\ target = <<>>
    /\ target_offset = <<>>
    /\ dec_seq_length = 0
    /\ example = NoExample
    /\ index = 0
    /\ build_pc = "call"
    /\ total_tokens = 0
    /\ datasets = <<>>

\* build_dataset(index, name) of a split without documents: dataset stays None
build_dataset_none ==
    /\ split_pc = "done"
    /\ build_pc = "call"
    /\ index <= 2
    /\ ~split_nonempty(splits_index, index)
    /\ datasets' = Append(datasets, None)
    /\ index' = index + 1
    /\ UNCHANGED <<train_valid_test_num_samples, build_pc, total_tokens>>
    /\ UNCHANGED <<splitVars, indexVars, dataVars, syncVars, cacheVars>>

\* build_dataset(index, name): a check of EncDecDataset.__init__ fails
build_dataset_refused ==
    /\ split_pc = "done"
    /\ build_pc = "call"
    /\ index <= 2
    /\ split_nonempty(splits_index, index)
    /\ LET docs == arange(At(splits_index, index), At(splits_index, index + 1))
       IN  /\ ~documents_ok(docs, Len(sizes))
           /\ documents' = docs
    /\ build_pc' = "fatal"
    /\ UNCHANGED <<train_valid_test_num_samples, index, total_tokens, datasets>>
    /\ UNCHANGED <<sizes, seq_length, num_samples, num_epochs, doc_idx, sample_idx,
                   shuffle_idx, built>>
    /\ UNCHANGED <<splitVars, dataVars, syncVars, cacheVars>>

\* build_dataset(index, name) up to the loop of _num_epochs: the documents of
\* the split pass the checks and _build_index_mappings is entered
build_dataset_enter ==
    /\ split_pc = "done"
    /\ build_pc = "call"
    /\ index <= 2
    /\ split_nonempty(splits_index, index)
    /\ LET docs == arange(At(splits_index, index), At(splits_index, index + 1))
       IN  /\ documents_ok(docs, Len(sizes))
           /\ documents' = docs
    /\ num_samples' = At(train_valid_test_num_samples, index)
    /\ seq_length' = BuilderSeqLength(enc_seq_length)
    /\ num_epochs' = 0
    /\ total_tokens' = 0
    /\ build_pc' = "epochs"
    /\ UNCHANGED <<train_valid_test_num_samples, index, datasets>>
    /\ UNCHANGED <<sizes, doc_idx, sample_idx, shuffle_idx, built>>
    /\ UNCHANGED <<splitVars, dataVars, syncVars, cacheVars>>

\* one turn of the while True loop of _num_epochs
num_epochs_step ==
    /\ build_pc = "epochs"
    /\ num_epochs < EpochCap
    /\ num_epochs' = num_epochs + 1
    /\ total_tokens' = total_tokens + _num_tokens(documents, sizes)
    /\ build_pc' = IF enough_tokens(total_tokens', seq_length, num_samples)
                   THEN "return" ELSE "epochs"
    /\ UNCHANGED <<train_valid_test_num_samples, index, datasets>>
    /\ UNCHANGED <<sizes, documents, seq_length, num_samples, doc_idx, sample_idx,
                   shuffle_idx, built>>
    /\ UNCHANGED <<splitVars, dataVars, syncVars, cacheVars>>

\* _num_epochs has returned: the dataset of the split is built and returned by
\* build_dataset. The three arrays it holds are those of _build_index_mappings
\* above; the dataset is recorded here by its documents and its num_epochs.
build_dataset_return ==
    /\ build_pc = "return"
    /\ datasets' = Append(datasets, [built |-> TRUE, documents |-> documents,
                                     num_epochs |-> num_epochs])
    /\ index' = index + 1
    /\ build_pc' = "call"
    /\ UNCHANGED <<train_valid_test_num_samples, total_tokens>>
    /\ UNCHANGED <<splitVars, indexVars, dataVars, syncVars, cacheVars>>

BuildIdle ==
    /\ train_valid_test_num_samples = <<>>
    /\ index = 0
    /\ build_pc = "call"
    /\ total_tokens = 0
    /\ datasets = <<>>

----------------------------------------------------------------------------
(* _build_index_mappings called again and again by one process, rank 0 of a *)
(* group of one, every call with the same data_prefix, name, num_samples,   *)
(* seq_length and seed: the three filenames are the same in every call      *)

MaxCalls == 2    \* largest number of calls

\* a filename no file is stored under
NoFile == [exists |-> FALSE, array |-> <<>>]

\* np.save(filename, array)
save(array) == [exists |-> TRUE, array |-> array]

\* one of the three files is missing
must_build == \E k \in FileIds : ~disk[k].exists

\* the documents a call can be made with
CallDocuments ==
    {docs \in Ranges(Len(sizes)) :
        /\ _num_tokens(docs, sizes) >= 1
        /\ InBounds(docs, sizes, seq_length, num_samples)}

CacheInit ==
    /\ sizes \in {s \in SeqsUpTo(0..MaxDocSize, MaxDocs) : Len(s) >= 1}
    /\ seq_length \in 1..MaxSeqLen
    /\ num_samples \in 0..MaxSamples
    /\ documents = <<>>
    /\ IndexUnbuilt
    /\ disk = [k \in FileIds |-> NoFile]
    /\ calls = 0

\* a call that finds a file missing: it builds the three arrays, saves them
\* and loads them
build_and_load ==
    /\ calls < MaxCalls
    /\ must_build
    /\ \E docs \in CallDocuments :
         LET tokens_per_epoch == _num_tokens(docs, sizes)
             ne == _num_epochs(tokens_per_epoch, seq_length, num_samples)
         IN  /\ documents' = docs
             /\ num_epochs' = ne
             /\ \E d \in _build_doc_idx(docs, ne) :
                  LET s == _build_sample_idx(sizes, d, seq_length, ne, tokens_per_epoch)
                  IN  \E sh \in _build_shuffle_idx(Len(s) - 1) :
                        disk' = [k \in FileIds |->
                                   IF k = 1 THEN save(d)
                                   ELSE IF k = 2 THEN save(s) ELSE save(sh)]
    /\ doc_idx' = disk'[1].array
    /\ sample_idx' = disk'[2].array
    /\ shuffle_idx' = disk'[3].array
    /\ built' = TRUE
    /\ calls' = calls + 1
    /\ UNCHANGED <<sizes, seq_length, num_samples>>
    /\ UNCHANGED <<splitVars, dataVars, syncVars, buildVars>>

\* a call that finds the three files: it builds nothing and loads them
load_only ==
    /\ calls < MaxCalls
    /\ ~must_build
    /\ \E docs \in CallDocuments :
         /\ documents' = docs
         /\ num_epochs' = _num_epochs(_num_tokens(docs, sizes), seq_length, num_samples)
    /\ doc_idx' = disk[1].array
    /\ sample_idx' = disk[2].array
    /\ shuffle_idx' = disk[3].array
    /\ built' = TRUE
    /\ calls' = calls + 1
    /\ UNCHANGED <<sizes, seq_length, num_samples, disk>>
    /\ UNCHANGED <<splitVars, dataVars, syncVars, buildVars>>

CacheIdle ==
    /\ disk = <<>>
    /\ calls = 0

----------------------------------------------------------------------------
(* The document-order walk the claims are stated in *)

\* boundary b is a token: a position of doc_idx and an offset inside its document
BoundaryOnToken(b) ==
    /\ b[1] \in 0..(Len(doc_idx) - 1)
    /\ b[2] \in 0..(At(sizes, At(doc_idx, b[1])) - 1)

\* the number of tokens walked from offset o of position j of doc_idx through
\* boundary l, the token at l included: the rest of each document, the cursor
\* advanced and the offset reset to 0 at each document end
RECURSIVE Walked(_, _, _)
Walked(j, o, l) ==
    IF j = l[1] THEN l[2] - o + 1
    ELSE IF j > l[1] \/ j >= Len(doc_idx) THEN -1
    ELSE (At(sizes, At(doc_idx, j)) - o) + Walked(j + 1, 0, l)

TotalTokens == num_epochs * _num_tokens(documents, sizes)

----------------------------------------------------------------------------
(* Claims about the split partitioner, checked under SpecSplit *)

\* C5: for every ratio specification whose values sum to more than 0 and every
\* document count N >= 0, get_train_valid_test_split_ returns exactly 4
\* boundaries with b0 = 0, b3 = N and b0 <= b1 <= b2 <= b3.
SplitBoundariesOrdered ==
    split_pc = "done" =>
      /\ Len(splits_index) = 4
      /\ splits_index[1] = 0
      /\ splits_index[4] = size
      /\ \A i \in 1..3 : splits_index[i] <= splits_index[i + 1]

\* the part of C5 the code does keep: 4 boundaries, b1 <= b2 <= b3 = N
SplitBoundariesTail ==
    split_pc = "done" =>
      /\ Len(splits_index) = 4
      /\ splits_index[4] = size
      /\ \A i \in 2..3 : splits_index[i] <= splits_index[i + 1]

----------------------------------------------------------------------------
(* Claims about the index builder, checked under SpecIndex *)

\* C1: _build_sample_idx produces exactly num_samples + 1 boundary pairs with
\* num_samples = (T - 1) // seq_length, the first pair is (0, 0), and the
\* tokens walked along doc_idx from boundary i through boundary i + 1, both
\* boundary tokens included, number exactly seq_length + 1.
SampleIdxWindowExact ==
    built =>
      LET n == (TotalTokens - 1) \div seq_length
      IN  /\ Len(sample_idx) = n + 1
          /\ sample_idx[1] = <<0, 0>>
          /\ \A i \in 1..n :
               /\ BoundaryOnToken(sample_idx[i + 1])
               /\ Walked(sample_idx[i][1], sample_idx[i][2], sample_idx[i + 1])
                    = seq_length + 1

\* a built index with at least two windows, one of which crosses a document end
SampleIdxCrossesDocuments ==
    /\ built
    /\ Len(sample_idx) >= 3
    /\ \E i \in 1..(Len(sample_idx) - 1) : sample_idx[i][1] < sample_idx[i + 1][1]

\* C6: _num_epochs returns the smallest E >= 1 with
\* (E * tokens_per_epoch - 1) // seq_length >= num_samples_requested, so the
\* number of samples built is never less than the number requested.
NumEpochsSmallest ==
    built =>
      LET tokens_per_epoch == _num_tokens(documents, sizes)
      IN  /\ num_epochs >= 1
          /\ (num_epochs * tokens_per_epoch - 1) \div seq_length >= num_samples
          /\ \A e \in 1..(num_epochs - 1) :
               (e * tokens_per_epoch - 1) \div seq_length < num_samples
          /\ Len(sample_idx) - 1 >= num_samples

\* an index that needed more than one epoch to reach the samples requested
NumEpochsSeveral ==
    /\ built
    /\ num_epochs >= 2
    /\ num_samples >= 1

\* C7 as stated: doc_idx has num_epochs * num_documents entries and each
\* consecutive block of num_documents entries holds every document id of the
\* split exactly once.
DocIdxEpochBlocksArePermutations ==
    built =>
      /\ Len(doc_idx) = num_epochs * Len(documents)
      /\ \A e \in 0..(num_epochs - 1) :
           \A d \in Range(documents) :
             Cardinality({i \in 1..Len(documents) :
                            doc_idx[e * Len(documents) + i] = d}) = 1

\* C7 as amended: doc_idx has num_epochs * num_documents entries, all of them
\* document ids of the split, and every document id of the split occurs in
\* the whole array exactly num_epochs times.
DocIdxIsShuffledReplication ==
    built =>
      /\ Len(doc_idx) = num_epochs * Len(documents)
      /\ Range(doc_idx) \subseteq Range(documents)
      /\ \A d \in Range(documents) : Count(doc_idx, d) = num_epochs

\* a doc_idx of two epochs whose first block repeats a document
DocIdxEpochsMixed ==
    /\ built
    /\ num_epochs = 2
    /\ Len(documents) = 2
    /\ doc_idx[1] = doc_idx[2]

----------------------------------------------------------------------------
(* The window of an example, read off the index arrays and the stores *)

\* the tokens of position j of doc_idx from offset a through offset b, each as
\* (document id, offset)
Cells(j, a, b) == [i \in 1..(b - a + 1) |-> <<At(doc_idx, j), a + i - 1>>]

\* the tokens walked from offset o of position j of doc_idx through boundary l
RECURSIVE WindowCells(_, _, _)
WindowCells(j, o, l) ==
    IF j >= l[1] THEN Cells(j, o, l[2])
    ELSE Cells(j, o, At(sizes, At(doc_idx, j)) - 1) \o WindowCells(j + 1, 0, l)

\* the window of the physical index the last __getitem__ call resolved
ExampleCells ==
    LET f == At(sample_idx, example.idx)
    IN  WindowCells(f[1], f[2], At(sample_idx, example.idx + 1))

\* the context ids of the window as stored, before any substitution
ExampleRaw ==
    LET cells == ExampleCells
    IN  [p \in 1..Len(cells) |-> At(At(context, cells[p][1]), cells[p][2])]

IsPlaceholder(id) == id >= vocab_size

\* the number of placeholders of the window raw before position p
Rank(raw, p) == Cardinality({q \in 1..(p - 1) : IsPlaceholder(raw[q])})

\* the span of slot x of document d: Target-Offset entries (2x, 2x + 1)
Span(d, x) ==
    LET off == At(At(target_offset, d), 2 * x)
        len == At(At(target_offset, d), 2 * x + 1)
    IN  [i \in 1..len |-> At(At(target, d), off + i - 1)]

\* span s with its first token replaced by h
WithHead(s, h) == [i \in 1..Len(s) |-> IF i = 1 THEN h ELSE s[i]]

\* the span of the placeholder at position p of the window (cells, raw), from
\* its own document
SpanAt(cells, raw, p) == Span(cells[p][1], raw[p] - vocab_size)

\* the spans of the placeholders from window position p on, the first of them
\* numbered k, each with its first token replaced by its sentinel
RECURSIVE SentinelSpans(_, _, _, _)
SentinelSpans(cells, raw, p, k) ==
    IF p > Len(raw) THEN <<>>
    ELSE IF IsPlaceholder(raw[p])
    THEN <<WithHead(SpanAt(cells, raw, p), sentinel_id(k))>>
         \o SentinelSpans(cells, raw, p + 1, k + 1)
    ELSE SentinelSpans(cells, raw, p + 1, k)

SentinelIds == {sentinel_id(k) : k \in 0..MaxDocIdx * MaxDocSize}

Called == example.status # "none"
Returned == example.status = "ok"

----------------------------------------------------------------------------
(* Claims about the sample materializer, checked under SpecData *)

\* C2: for every logical index of a dataset whose index arrays were built with
\* seq_length = enc_seq_length - 1, __getitem__ returns contexts and
\* ctx_eod_mask of length enc_seq_length and targets and labels of length
\* dec_seq_length, and neither length assertion ever fails.
ExampleLengthsExact ==
    Called =>
      /\ example.reason \notin {"contexts length", "target length"}
      /\ Returned =>
           /\ Len(example.contexts) = enc_seq_length
           /\ Len(example.ctx_eod_mask) = enc_seq_length
           /\ Len(example.targets) = dec_seq_length
           /\ Len(example.labels) = dec_seq_length

\* an example returned for a window that spans several documents
ExampleOfSeveralDocuments ==
    /\ Returned
    /\ example.case = "multi"
    /\ Len(example.contexts) = enc_seq_length

\* C3: the placeholders of a window are numbered 0, 1, 2, ... in window order
\* by one counter shared across the document slices: the context position of
\* the k-th placeholder holds sentinel_id(k), the k-th span of the decoder
\* stream is the span of that placeholder's own document at Target-Offset
\* entries (2x, 2x + 1) with its first token replaced by sentinel_id(k), and
\* every position that held a placeholder holds a sentinel id.
SentinelsNumberedInWindowOrder ==
    Returned =>
      LET cells == ExampleCells
          raw   == ExampleRaw
      IN  /\ Len(example.contexts) = Len(raw)
          /\ \A p \in 1..Len(raw) :
               IsPlaceholder(raw[p]) =>
                 /\ example.contexts[p] = sentinel_id(Rank(raw, p))
                 /\ example.contexts[p] \in SentinelIds
                 /\ Len(example.targets_list) > Rank(raw, p)
                 /\ example.targets_list[Rank(raw, p) + 1]
                      = WithHead(SpanAt(cells, raw, p), sentinel_id(Rank(raw, p)))
          /\ example.targets_list = SentinelSpans(cells, raw, 1, 0)

\* an example whose window has a placeholder in each of two different documents
PlaceholdersInTwoDocuments ==
    /\ Returned
    /\ LET cells == ExampleCells
           raw   == ExampleRaw
       IN  \E p, q \in 1..Len(raw) :
             /\ p < q
             /\ IsPlaceholder(raw[p])
             /\ IsPlaceholder(raw[q])
             /\ cells[p][1] # cells[q][1]

\* C8: shuffle_idx is a permutation of [0, num_samples), so __getitem__ resolves
\* every physical window exactly once as the logical index ranges over
\* [0, len()), and never reads sample_idx beyond its last boundary pair.
ShuffleIdxIsPermutation ==
    built =>
      /\ Len(shuffle_idx) = __len__
      /\ \A w \in 0..(__len__ - 1) : Count(shuffle_idx, w) = 1
      /\ Called =>
           /\ example.idx = At(shuffle_idx, example.logical)
           /\ example.idx + 1 <= Len(sample_idx) - 1

\* an example read through a shuffle_idx that moved its logical index
ExampleThroughShuffle ==
    /\ Called
    /\ __len__ >= 2
    /\ example.idx # example.logical

\* a context id of the window is eod_id, or a placeholder's span does not start
\* with the placeholder id
WindowDefect ==
    LET cells == ExampleCells
        raw   == ExampleRaw
    IN  \E p \in 1..Len(raw) :
           \/ raw[p] = eod_id
           \/ /\ IsPlaceholder(raw[p])
              /\ SpanAt(cells, raw, p)[1] # raw[p]

\* C9: __getitem__ fails and returns no example whenever a token of the
\* window's context slice equals eod_id or the first token of a placeholder's
\* span differs from the placeholder id.
DefectiveWindowIsFatal ==
    (Called /\ WindowDefect) => example.status = "fatal"

\* a window of several documents refused for an eod_id among its context ids
EodInContextRefused ==
    /\ example.status = "fatal"
    /\ example.case = "multi"
    /\ example.reason = "eod in context"
    /\ LET raw == ExampleRaw
       IN  \E p \in 1..Len(raw) : raw[p] = eod_id

\* the decoder stream of the window before the cut
DecoderStream ==
    LET cells == ExampleCells
        raw   == ExampleRaw
    IN  <<1>> \o Flatten(SentinelSpans(cells, raw, 1, 0))
              \o <<sentinel_id(Rank(raw, Len(raw) + 1))>>

\* the number of tokens of decoder stream ds that are kept
Kept(ds) == IF Len(ds) > dec_seq_length + 1 THEN dec_seq_length + 1 ELSE Len(ds)

\* C10: the decoder stream is [1], the spans in window order and
\* sentinel_id(c), cut to its first dec_seq_length + 1 tokens when longer;
\* targets is it without its last token and labels without its first, each
\* right-padded with pad_id to dec_seq_length; the cut never fails.
DecoderStreamSplit ==
    Called =>
      /\ example.reason # "target length"
      /\ Returned =>
           LET ds   == DecoderStream
               kept == Kept(ds)
           IN  /\ example.cut = (Len(ds) > dec_seq_length + 1)
               /\ Len(example.targets) = dec_seq_length
               /\ Len(example.labels) = dec_seq_length
               /\ \A j \in 1..dec_seq_length :
                    /\ example.targets[j] = IF j <= kept - 1 THEN ds[j] ELSE pad_id
                    /\ example.labels[j] = IF j <= kept - 1 THEN ds[j + 1] ELSE pad_id
               /\ \A j \in 1..(kept - 2) : example.labels[j] = example.targets[j + 1]

\* an example whose decoder stream was cut
DecoderStreamCut ==
    /\ Returned
    /\ example.cut
    /\ Len(DecoderStream) > dec_seq_length + 1

----------------------------------------------------------------------------
(* Claims about the build/barrier/load protocol, checked under SpecSync *)

Loading(r) == pc[r][1] \in {"load", "done", "failed"}

----------------------------------------------------------------------------
(* Claims about build_train_valid_test_datasets, checked under SpecBuild *)

\* the loop of _num_epochs, where it stands, returns at its turn e
ReturnsAtTurn(e) ==
    enough_tokens(total_tokens + (e - num_epochs) * _num_tokens(documents, sizes),
                  seq_length, num_samples)

\* every dataset built so far is of a split of at least one document, all of
\* them ids inside [0, N), and a split without documents gave None
BuiltSplitsInRange ==
    \A k \in 1..Len(datasets) :
       /\ datasets[k].built =>
            /\ Len(datasets[k].documents) >= 1
            /\ \A i \in 1..Len(datasets[k].documents) :
                 datasets[k].documents[i] \in 0..(size - 1)
       /\ ~split_nonempty(splits_index, k - 1) => datasets[k] = None

\* C11: build_train_valid_test_datasets builds a dataset only for a split of
\* at least one document and only over document ids inside [0, N), an empty
\* split yields no dataset, and for every split it does build the loop of
\* _num_epochs terminates with a finite num_epochs: while the loop runs there
\* is a turn at which it returns, and every dataset built has num_epochs >= 1.
BuiltSplitsEpochLoopTerminates ==
    /\ BuiltSplitsInRange
    /\ \A k \in 1..Len(datasets) : datasets[k].built => datasets[k].num_epochs >= 1
    /\ build_pc = "epochs" =>
         \E e \in (num_epochs + 1)..EpochCap : ReturnsAtTurn(e)

----------------------------------------------------------------------------
(* Claims about repeated calls of _build_index_mappings, checked under     *)
(* SpecCache                                                               *)

\* C12: after any sequence of calls with the same data_prefix, name,
\* num_samples, seq_length and seed, the arrays returned to a call are those
\* of its own documents and sizes: doc_idx holds only ids of the call's
\* documents, each of them num_epochs times, and every window of sample_idx
\* walks exactly seq_length + 1 tokens, also when an earlier call with other
\* documents has left the index files on disk.
ReturnedArraysAreTheCallsOwn ==
    calls >= 1 =>
      /\ Range(doc_idx) \subseteq Range(documents)
      /\ \A d \in Range(documents) : Count(doc_idx, d) = num_epochs
      /\ sample_idx[1] = <<0, 0>>
      /\ \A i \in 1..(Len(sample_idx) - 1) :
           /\ BoundaryOnToken(sample_idx[i + 1])
           /\ Walked(sample_idx[i][1], sample_idx[i][2], sample_idx[i + 1])
                = seq_length + 1

----------------------------------------------------------------------------
(* Specifications *)

SplitOnly == SplitInit /\ IndexIdle /\ DataIdle /\ SyncIdle /\ BuildIdle /\ CacheIdle

SplitNext ==
    \/ SplitFatal
    \/ SplitReturn

SpecSplit == SplitOnly /\ [][SplitNext]_vars

IndexOnly == IndexInit /\ SplitIdle /\ DataIdle /\ SyncIdle /\ BuildIdle /\ CacheIdle

build_index_mappings ==
    /\ _build_index_mappings(seq_length)
    /\ UNCHANGED <<splitVars, dataVars, syncVars, buildVars, cacheVars>>

IndexNext == build_index_mappings

SpecIndex == IndexOnly /\ [][IndexNext]_vars

DataOnly == DataInit /\ SplitIdle /\ SyncIdle /\ BuildIdle /\ CacheIdle

DataNext ==
    \/ EncDecDataset_init
    \/ EncDecDataset_getitem

SpecData == DataOnly /\ [][DataNext]_vars

SyncOnly == SyncInit /\ SplitIdle /\ IndexIdle /\ DataIdle /\ BuildIdle /\ CacheIdle

SyncNext ==
    \/ \E r \in group : Enter(r)
    \/ \E r \in group : IsFileMissing(r)
    \/ \E r \in group : IsFilePresent(r)
    \/ \E r \in group : SaveOpen(r)
    \/ \E r \in group : SaveClose(r)
    \/ \E r \in group : AllReduceEnter(r)
    \/ \E r \in group : AllReduceReturn(r)
    \/ \E r \in group : Load(r)

SpecSync == SyncOnly /\ [][SyncNext]_vars

BuildOnly == BuildInit /\ SyncIdle /\ CacheIdle

BuildNext ==
    \/ SplitFatal
    \/ SplitReturn
    \/ build_dataset_none
    \/ build_dataset_refused
    \/ build_dataset_enter
    \/ num_epochs_step
    \/ build_dataset_return

SpecBuild == BuildOnly /\ [][BuildNext]_vars

CacheOnly == CacheInit /\ SplitIdle /\ DataIdle /\ SyncIdle /\ BuildIdle

CacheNext ==
    \/ build_and_load
    \/ load_only

SpecCache == CacheOnly /\ [][CacheNext]_vars

============================================================================
